---- MODULE Spec2Model ----
(***************************************************************************)
(* Model of scripts/generate_appinventor_project.py: the packaging entry   *)
(* point (ensure_required_files, ensure_no_conflicts, ensure_assets,       *)
(* ensure_project_properties, write_aia) and the generating entry point    *)
(* (build_scm, build_bky, write_files).                                    *)
(***************************************************************************)
EXTENDS Integers, Sequences, FiniteSets, TLC

VARIABLES
    fs,         \* regular files: path -> content record (kind "absent" when missing)
    dirs,       \* set of existing directories
    pc,         \* position of the running entry point, "idle" between runs
    err,        \* the exception that ended the run, kind "none" when there is none
    git_status, \* list_git_conflicts: "none" before `git ls-files -u` ran, then "ok" or "failed"
    stdout,     \* list_git_conflicts: the lines of result.stdout (followed in GitSpec only)
    listed,     \* ensure_no_conflicts: the list returned by list_git_conflicts()
    conflicts,  \* ensure_no_conflicts: the local list `conflicts`
    queried,    \* whether this run invoked `git ls-files -u`
    written,    \* paths written (write_text / ZipFile) by the current run
    fs0,        \* the files as they were when the current run started
    lastOk,     \* entry point of the last completed run, "none" after a source change
    gpc,        \* position inside `scm_text = build_scm(); bky_text = build_bky()`
    scm,        \* build_scm: next call, builder, locals, Uuids handed out
    bky,        \* build_bky: next call, factory counter, elements, locals
    scm_text,   \* write_files: the local scm_text
    bky_text,   \* write_files: the local bky_text
    runs        \* completed runs of the two builders

pvars ==
    <<fs, dirs, pc, err, git_status, stdout, listed, conflicts, queried, written,
      fs0, lastOk>>
gvars == <<gpc, scm, bky, scm_text, bky_text, runs>>
vars == <<pvars, gvars>>

-----------------------------------------------------------------------------
(* Bounds of the model *)

\* distinct contents the environment gives to a file it edits
MaxVersions == 1
\* lines printed by `git ls-files -u`
MaxLines == 2
\* stage entries git prints for one conflicted path
MaxStages == 2
\* runs of build_scm and build_bky that are followed step by step
MaxRuns == 2

-----------------------------------------------------------------------------
(* pathlib.Path: a path is the sequence of its components *)

\* str ordering of the component names that occur (code point order)
NameOrder ==
    << ".nomedia", "/", "DigitalGardenController", "DigitalGardenController.aia",
       "README.md", "Screen1.bky", "Screen1.scm", "ai_digitalgarden",
       "app_inventor", "appinventor", "assets", "notes.txt",
       "project.properties", "repo", "src", "youngandroidproject" >>

Rank(name) == CHOOSE i \in 1..Len(NameOrder) : NameOrder[i] = name

\* Path.__truediv__
Join(p, q) == p \o q

IsPrefix(b, p) == Len(b) <= Len(p) /\ SubSeq(p, 1, Len(b)) = b

\* Path.relative_to
relative_to(p, base) == SubSeq(p, Len(base) + 1, Len(p))

\* Path.name
PathName(p) == p[Len(p)]

\* Path.__lt__: component-wise comparison
RECURSIVE PathLess(_, _)
PathLess(p, q) ==
    IF q = <<>> THEN FALSE
    ELSE IF p = <<>> THEN TRUE
    ELSE IF p[1] = q[1] THEN PathLess(Tail(p), Tail(q))
    ELSE Rank(p[1]) < Rank(q[1])

\* sorted(): ascending sequence of the elements of a set of paths
RECURSIVE sorted(_)
sorted(S) ==
    IF S = {} THEN <<>>
    ELSE LET m == CHOOSE x \in S : \A y \in S \ {x} : PathLess(x, y)
         IN  <<m>> \o sorted(S \ {m})

REPO_ROOT == << "/", "repo" >>
PROJECT_DIR == Join(REPO_ROOT, << "app_inventor", "DigitalGardenController" >>)
SRC_DIR ==
    Join(PROJECT_DIR,
         << "src", "appinventor", "ai_digitalgarden", "DigitalGardenController" >>)
ASSETS_DIR == Join(PROJECT_DIR, << "assets" >>)
YOUNG_DIR == Join(PROJECT_DIR, << "youngandroidproject" >>)
AIA_PATH == Join(PROJECT_DIR, << "DigitalGardenController.aia" >>)
SCM_PATH == Join(SRC_DIR, << "Screen1.scm" >>)
BKY_PATH == Join(SRC_DIR, << "Screen1.bky" >>)
REQUIRED_FILES == << SCM_PATH, BKY_PATH >>
NOMEDIA_PATH == Join(ASSETS_DIR, << ".nomedia" >>)
PROPERTIES_PATH == Join(YOUNG_DIR, << "project.properties" >>)

\* files of the checkout that the script does not generate
NOTES_PATH == Join(PROJECT_DIR, << "notes.txt" >>)
NESTED_AIA_PATH == Join(ASSETS_DIR, << "DigitalGardenController.aia" >>)
README_PATH == Join(REPO_ROOT, << "README.md" >>)

FilePaths ==
    { AIA_PATH, SCM_PATH, BKY_PATH, NOMEDIA_PATH, PROPERTIES_PATH,
      NOTES_PATH, NESTED_AIA_PATH, README_PATH }

\* Path.mkdir(parents=True, exist_ok=True): the directory and its ancestors
Ancestors(d) == { SubSeq(d, 1, n) : n \in 1..Len(d) }

AllDirs == UNION { Ancestors(d) : d \in { SRC_DIR, ASSETS_DIR, YOUNG_DIR } }

-----------------------------------------------------------------------------
(* File contents *)

Absent == [kind |-> "absent", text |-> "", members |-> <<>>]
Text(s) == [kind |-> "text", text |-> s, members |-> <<>>]
Zip(ms) == [kind |-> "zip", text |-> "", members |-> ms]

Digits == << "0", "1", "2", "3", "4", "5", "6", "7", "8", "9" >>

\* str(int) for a non-negative int
RECURSIVE IntToStr(_)
IntToStr(n) ==
    IF n < 10 THEN Digits[n + 1]
    ELSE IntToStr(n \div 10) \o Digits[(n % 10) + 1]

\* content of a file edited by hand, in its v-th version
UserText(v) == Text("user content " \o IntToStr(v))

\* the checked-in, hand-maintained descriptors
CheckedIn(p) == Text("checked-in " \o PathName(p))

PropertyLines ==
    << "main=appinventor.ai_digitalgarden.DigitalGardenController.Screen1",
       "name=DigitalGardenController",
       "assets=../assets",
       "source=../src",
       "build=../build",
       "versioncode=1",
       "versionname=1.0",
       "useslocation=False",
       "aname=DigitalGardenController",
       "sizing=Responsive",
       "showlistsasjson=True",
       "actionbar=True",
       "theme=AppTheme.Light.DarkActionBar",
       "color.primary=&HFF2196F3",
       "color.primary.dark=&HFF1565C0",
       "color.accent=&HFFFFC107" >>

\* the triple-quoted literal: every line is followed by a newline
RECURSIVE LinesText(_)
LinesText(ls) ==
    IF ls = <<>> THEN "" ELSE ls[1] \o "\n" \o LinesText(Tail(ls))

PROJECT_PROPERTIES == LinesText(PropertyLines)

\* str.join
RECURSIVE StrJoin(_, _)
StrJoin(sep, ls) ==
    IF ls = <<>> THEN ""
    ELSE IF Len(ls) = 1 THEN ls[1]
    ELSE ls[1] \o sep \o StrJoin(sep, Tail(ls))

project_properties == StrJoin("\n", PropertyLines) \o "\n"

-----------------------------------------------------------------------------
(* Filesystem primitives *)

\* Path.exists() / Path.is_file() for the paths of regular files
is_file(f, p) == p \in DOMAIN f /\ f[p].kind # "absent"

\* Path.mkdir(parents=True, exist_ok=True)
mkdir(d, dir) == d \cup Ancestors(dir)

\* Path.write_text
write_text(f, p, s) == [f EXCEPT ![p] = Text(s)]

\* Path.rglob("*"): every existing file and directory below root
rglob(f, d, root) ==
    { p \in DOMAIN f : is_file(f, p) /\ IsPrefix(root, p) /\ p # root }
        \cup { x \in d : IsPrefix(root, x) /\ x # root }

\* the members ZipFile.write adds for the kept paths, in the given order
ZipMembers(f, kept) ==
    [i \in 1..Len(kept) |->
        [name |-> relative_to(kept[i], PROJECT_DIR), data |-> f[kept[i]]]]

-----------------------------------------------------------------------------
(* Packaging entry point *)

NoError == [kind |-> "none", paths |-> <<>>]

\* variant of the missing-file scan that stops after the first required file
MissingFiles_first_only(f) ==
    SelectSeq(SubSeq(REQUIRED_FILES, 1, 1), LAMBDA p : ~is_file(f, p))

\* the list `missing` of ensure_required_files
MissingFiles(f) == SelectSeq(REQUIRED_FILES, LAMBDA p : ~is_file(f, p))

\* A line of `git ls-files -u` is the tuple of its tab-separated parts:
\* <<stage>> has no tab, <<stage, path>> is "<mode> <hash> <stage>\t<path>".
GitPaths ==
    { relative_to(AIA_PATH, REPO_ROOT), relative_to(SCM_PATH, REPO_ROOT),
      relative_to(README_PATH, REPO_ROOT) }

GitLines == { <<s, p>> : s \in 1..MaxStages, p \in GitPaths } \cup { <<0>> }

RECURSIVE SeqsUpTo(_, _)
SeqsUpTo(S, n) ==
    IF n = 0 THEN { <<>> }
    ELSE LET shorter == SeqsUpTo(S, n - 1)
         IN  shorter \cup { Append(q, x) : q \in shorter, x \in S }

\* outcomes of subprocess.run: exit status and captured stdout lines
GitOutputs ==
    { [ok |-> TRUE, lines |-> ls] : ls \in SeqsUpTo(GitLines, MaxLines) }
        \cup { [ok |-> FALSE, lines |-> <<>>] }

\* variant of list_git_conflicts that collects the paths in a list, one entry
\* per line, and returns it as collected
list_git_conflicts_per_line(lines) ==
    LET tabbed == SelectSeq(lines, LAMBDA l : Len(l) >= 2)
    IN  [i \in 1..Len(tabbed) |-> Join(REPO_ROOT, tabbed[i][2])]

\* list_git_conflicts, for a query that succeeded
list_git_conflicts(lines) ==
    sorted({ Join(REPO_ROOT, lines[i][2]) :
                i \in { j \in 1..Len(lines) : Len(lines[j]) >= 2 } })

\* variant of list_git_conflicts that swallows a failed query and returns
\* an empty list
GitResults_swallow_failure ==
    { [completed |-> out.ok,
       ok |-> TRUE,
       listed |-> IF out.ok THEN list_git_conflicts(out.lines) ELSE <<>>] :
        out \in GitOutputs }

\* what list_git_conflicts does over all outcomes of the query: `completed`
\* is whether the subprocess exited with status 0; when it did not (check=True
\* raises CalledProcessError) list_git_conflicts raises (ok = FALSE), else it
\* returns the sorted list of the paths printed
GitResults ==
    { [completed |-> out.ok,
       ok |-> out.ok,
       listed |-> IF out.ok THEN list_git_conflicts(out.lines) ELSE <<>>] :
        out \in GitOutputs }

\* variant of the conflict filter that does not exempt the archive
NonArchiveConflicts_keep_archive(found) == found

\* variant of the conflict filter in which a conflicted archive exempts the rest
NonArchiveConflicts_archive_exempts(found) ==
    IF \E i \in 1..Len(found) : found[i] = AIA_PATH THEN <<>> ELSE found

\* the list `conflicts` of ensure_no_conflicts
NonArchiveConflicts(found) == SelectSeq(found, LAMBDA p : p # AIA_PATH)

\* the paths the ConflictError message lists
ConflictMessagePaths(cs) == [i \in 1..Len(cs) |-> relative_to(cs[i], REPO_ROOT)]

\* variant of ensure_assets that creates the directory and no marker file
ensure_assets_no_marker(f) == f

\* ensure_assets
ensure_assets(f) == write_text(f, NOMEDIA_PATH, "")

\* ensure_project_properties
ensure_project_properties(f) == write_text(f, PROPERTIES_PATH, PROJECT_PROPERTIES)

\* write_aia: ZipFile(AIA_PATH, "w") truncates the archive, then the walk adds
\* every regular file except AIA_PATH
write_aia(f, d) ==
    LET opened == [f EXCEPT ![AIA_PATH] = Zip(<<>>)]
        kept == SelectSeq(sorted(rglob(opened, d, PROJECT_DIR)),
                          LAMBDA p : is_file(opened, p) /\ p # AIA_PATH)
    IN  [opened EXCEPT ![AIA_PATH] = Zip(ZipMembers(opened, kept))]

StartMain ==
    /\ pc = "idle"
    /\ pc' = "m_required"
    /\ UNCHANGED gvars
    /\ UNCHANGED <<fs, dirs, err, git_status, stdout, listed, conflicts,
                 queried, written, fs0, lastOk>>

MainEnsureRequiredFiles ==
    /\ pc = "m_required"
    /\ LET missing == MissingFiles(fs)
       IN  IF missing # <<>>
           THEN /\ err' = [kind |-> "FileNotFoundError", paths |-> missing]
                /\ pc' = "m_failed"
           ELSE /\ err' = err
                /\ pc' = "m_conflicts"
    /\ UNCHANGED gvars
    /\ UNCHANGED <<fs, dirs, git_status, stdout, listed, conflicts, queried, written,
                 fs0, lastOk>>

MainEnsureNoConflicts ==
    /\ pc = "m_conflicts"
    /\ queried' = TRUE
    /\ stdout' = stdout
    /\ \E res \in GitResults :
        /\ git_status' = IF res.completed THEN "ok" ELSE "failed"
        /\ IF ~res.ok
           THEN /\ err' = [kind |-> "RuntimeError", paths |-> <<>>]
                /\ listed' = listed
                /\ conflicts' = conflicts
                /\ pc' = "m_failed"
           ELSE /\ listed' = res.listed
                /\ conflicts' = NonArchiveConflicts(res.listed)
                /\ IF conflicts' # <<>>
                   THEN /\ err' = [kind |-> "ConflictError",
                                   paths |-> ConflictMessagePaths(conflicts')]
                        /\ pc' = "m_failed"
                   ELSE /\ err' = err
                        /\ pc' = "m_assets"
    /\ UNCHANGED gvars
    /\ UNCHANGED <<fs, dirs, written, fs0, lastOk>>

MainEnsureAssets ==
    /\ pc = "m_assets"
    /\ dirs' = mkdir(dirs, ASSETS_DIR)
    /\ fs' = ensure_assets(fs)
    /\ written' = written \cup { NOMEDIA_PATH }
    /\ pc' = "m_properties"
    /\ UNCHANGED gvars
    /\ UNCHANGED <<err, git_status, stdout, listed, conflicts,
                 queried, fs0, lastOk>>

MainEnsureProjectProperties ==
    /\ pc = "m_properties"
    /\ dirs' = mkdir(dirs, YOUNG_DIR)
    /\ fs' = ensure_project_properties(fs)
    /\ written' = written \cup { PROPERTIES_PATH }
    /\ pc' = "m_aia"
    /\ UNCHANGED gvars
    /\ UNCHANGED <<err, git_status, stdout, listed, conflicts,
                 queried, fs0, lastOk>>

MainWriteAia ==
    /\ pc = "m_aia"
    /\ fs' = write_aia(fs, dirs)
    /\ written' = written \cup { AIA_PATH }
    /\ pc' = "m_done"
    /\ UNCHANGED gvars
    /\ UNCHANGED <<dirs, err, git_status, stdout, listed, conflicts,
                 queried, fs0, lastOk>>

-----------------------------------------------------------------------------
(* Generated values shared by build_scm and build_bky *)

SLIDER_DEFAULT == 50

\* a float that is the exact quotient n / d of two ints (d > 0)
TrueDiv(a, b) == [n |-> a, d |-> b]
IntMinus(a, q) == [n |-> a * q.d - q.n, d |-> q.d]
IntPlus(a, q) == [n |-> a * q.d + q.n, d |-> q.d]

\* variant of round in which a tie goes up
round_half_up(q) ==
    LET lo == q.n \div q.d
    IN  IF 2 * (q.n % q.d) < q.d THEN lo ELSE lo + 1

\* round(x) with one argument: nearest int, a tie goes to the even neighbour
round(q) ==
    LET lo == q.n \div q.d
        twice == 2 * (q.n % q.d)
    IN  IF twice < q.d THEN lo
        ELSE IF twice > q.d THEN lo + 1
        ELSE IF lo % 2 = 0 THEN lo ELSE lo + 1

\* build_scm: blink_default .. twinkle_default
scm_defaults ==
    [blink |-> round(IntMinus(2000, TrueDiv(1950 * SLIDER_DEFAULT, 100))),
     chase |-> round(IntMinus(2000, TrueDiv(1950 * SLIDER_DEFAULT, 100))),
     fade |-> round(IntPlus(1, TrueDiv(19 * SLIDER_DEFAULT, 100))),
     rainbow |-> round(IntMinus(200, TrueDiv(190 * SLIDER_DEFAULT, 100))),
     twinkle |-> round(IntPlus(1, TrueDiv(99 * SLIDER_DEFAULT, 100)))]

\* build_bky: blink_default .. twinkle_default
bky_defaults ==
    [blink |-> round(IntMinus(2000, TrueDiv(1950 * SLIDER_DEFAULT, 100))),
     chase |-> round(IntMinus(2000, TrueDiv(1950 * SLIDER_DEFAULT, 100))),
     fade |-> round(IntPlus(1, TrueDiv(19 * SLIDER_DEFAULT, 100))),
     rainbow |-> round(IntMinus(200, TrueDiv(190 * SLIDER_DEFAULT, 100))),
     twinkle |-> round(IntPlus(1, TrueDiv(99 * SLIDER_DEFAULT, 100)))]

-----------------------------------------------------------------------------
(* JSON values: str, list and dict (a dict keeps its insertion order) *)

JStr(s) == [t |-> "str", s |-> s, items |-> <<>>]
JList(xs) == [t |-> "list", s |-> "", items |-> xs]
JDict(pairs) == [t |-> "dict", s |-> "", items |-> pairs]

\* dict.__setitem__: replaces the value of a present key, else appends the key
DictSet(d, k, v) ==
    IF \E i \in 1..Len(d.items) : d.items[i][1] = k
    THEN JDict([i \in 1..Len(d.items) |->
                    IF d.items[i][1] = k THEN <<k, v>> ELSE d.items[i]])
    ELSE JDict(Append(d.items, <<k, v>>))

HasKey(d, k) == \E i \in 1..Len(d.items) : d.items[i][1] = k
DictGet(d, k) == d.items[CHOOSE i \in 1..Len(d.items) : d.items[i][1] = k][2]

\* json.dumps(obj, separators=(',', ':')); no string here needs escaping
RECURSIVE json_dumps(_)
RECURSIVE json_items(_, _)
\* variant of the item writer that emits the last item first
json_items_reversed(xs, keyed) ==
    IF xs = <<>> THEN ""
    ELSE json_items(Tail(xs), keyed)
         \o (IF Len(xs) > 1 THEN "," ELSE "")
         \o (IF keyed THEN "\"" \o xs[1][1] \o "\":" \o json_dumps(xs[1][2])
                       ELSE json_dumps(xs[1]))

json_dumps(v) ==
    IF v.t = "str" THEN "\"" \o v.s \o "\""
    ELSE IF v.t = "list" THEN "[" \o json_items(v.items, FALSE) \o "]"
    ELSE "{" \o json_items(v.items, TRUE) \o "}"
json_items(xs, keyed) ==
    IF xs = <<>> THEN ""
    ELSE (IF keyed THEN "\"" \o xs[1][1] \o "\":" \o json_dumps(xs[1][2])
                   ELSE json_dumps(xs[1]))
         \o (IF Len(xs) > 1 THEN "," ELSE "")
         \o json_items(Tail(xs), keyed)

-----------------------------------------------------------------------------
(* ComponentBuilder *)

\* ComponentBuilder.__init__
NewComponentBuilder == [uuid |-> 1000]

\* variant of _next_uuid that hands out the counter without advancing it
next_uuid_no_increment(b) == b

\* ComponentBuilder._next_uuid: the builder after the increment
next_uuid(b) == [b EXCEPT !.uuid = b.uuid + 1]

RECURSIVE SetProps(_, _)
SetProps(d, props) ==
    IF props = <<>> THEN d
    ELSE SetProps(DictSet(d, props[1][1], JStr(props[1][2])), Tail(props))

\* ComponentBuilder.component: the builder afterwards and the descriptor
component(b, name, type_, version, props, children) ==
    LET b1 == next_uuid(b)
        data == JDict(<< <<"$Name", JStr(name)>>,
                         <<"$Type", JStr(type_)>>,
                         <<"$Version", JStr(IntToStr(version))>>,
                         <<"Uuid", JStr(IntToStr(b1.uuid))>> >>)
        data1 == SetProps(data, props)
        data2 == IF children # <<>>
                 THEN DictSet(data1, "$Components", JList(children))
                 ELSE data1
    IN  [b |-> b1, d |-> data2]

\* One call of builder.component in build_scm: the local it is bound to, its
\* arguments, and the locals its children list names.
Call(var, name, type_, version, props, children) ==
    [var |-> var, name |-> name, type_ |-> type_, version |-> version,
     props |-> props, children |-> children]

\* slider_block(name, label_text), its result bound to var
slider_block(var, name, label_text) ==
    << Call(var \o ".label", name \o "Label", "Label", 5,
            << <<"Text", label_text>> >>, <<>>),
       Call(var \o ".slider", name, "Slider", 3,
            << <<"MaxValue", "100">>, <<"MinValue", "0">>,
               <<"ThumbPosition", IntToStr(SLIDER_DEFAULT)>>,
               <<"Width", "-2">> >>, <<>>),
       Call(var, name \o "Layout", "VerticalArrangement", 4,
            << <<"Width", "-2">> >>, << var \o ".label", var \o ".slider" >>) >>

\* the calls of builder.component in build_scm, in evaluation order
ScmCalls ==
    << Call("title", "TitleLabel", "Label", 5,
            << <<"Text", "Digital Garden Controller">>, <<"FontSize", "20">>,
               <<"TextAlignment", "1">> >>, <<>>),
       Call("connect_picker", "ConnectPicker", "ListPicker", 9,
            << <<"Text", "Connect">>, <<"Width", "-2">> >>, <<>>),
       Call("disconnect_button", "DisconnectButton", "Button", 7,
            << <<"Text", "Disconnect">>, <<"Width", "-2">> >>, <<>>),
       Call("connection_row", "ConnectionRow", "HorizontalArrangement", 4,
            << <<"AlignHorizontal", "3">>, <<"Width", "-2">> >>,
            << "connect_picker", "disconnect_button" >>),
       Call("status_label", "StatusLabel", "Label", 5,
            << <<"Text", "Not connected">>, <<"Width", "-2">> >>, <<>>),
       Call("mode_label", "ModeLabel", "Label", 5,
            << <<"Text", "Modes">>, <<"FontBold", "True">> >>, <<>>),
       Call("manual_button", "ManualButton", "Button", 7,
            << <<"Text", "Manual">> >>, <<>>),
       Call("chase_button", "ChaseButton", "Button", 7,
            << <<"Text", "Chase">> >>, <<>>),
       Call("mode_row1", "ModeRow1", "HorizontalArrangement", 4,
            << <<"Width", "-2">> >>, << "manual_button", "chase_button" >>),
       Call("blink_button", "BlinkModeButton", "Button", 7,
            << <<"Text", "Blink">> >>, <<>>),
       Call("fade_button", "FadeModeButton", "Button", 7,
            << <<"Text", "Fade">> >>, <<>>),
       Call("mode_row2", "ModeRow2", "HorizontalArrangement", 4,
            << <<"Width", "-2">> >>, << "blink_button", "fade_button" >>),
       Call("rainbow_button", "RainbowModeButton", "Button", 7,
            << <<"Text", "Rainbow">> >>, <<>>),
       Call("mode_row3", "ModeRow3", "HorizontalArrangement", 4,
            << <<"Width", "-2">> >>, << "rainbow_button" >>),
       Call("manual_label", "ManualLabel", "Label", 5,
            << <<"Text", "Manual Colors">>, <<"FontBold", "True">> >>, <<>>),
       Call("color_layout.0", "CheckBoxRed", "CheckBox", 2,
            << <<"Text", "Red">>, <<"Checked", "False">> >>, <<>>),
       Call("color_layout.1", "CheckBoxGreen", "CheckBox", 2,
            << <<"Text", "Green">>, <<"Checked", "False">> >>, <<>>),
       Call("color_layout.2", "CheckBoxBlue", "CheckBox", 2,
            << <<"Text", "Blue">>, <<"Checked", "False">> >>, <<>>),
       Call("color_layout.3", "CheckBoxWhite", "CheckBox", 2,
            << <<"Text", "White">>, <<"Checked", "False">> >>, <<>>),
       Call("color_layout", "ColorLayout", "VerticalArrangement", 4,
            << <<"Width", "-2">> >>,
            << "color_layout.0", "color_layout.1", "color_layout.2",
               "color_layout.3" >>),
       Call("settings_label", "SettingsLabel", "Label", 5,
            << <<"Text", "Effect Settings">>, <<"FontBold", "True">> >>, <<>>) >>
    \o slider_block("blink_layout", "BlinkSlider",
            "Blink Interval: " \o IntToStr(scm_defaults.blink) \o " ms")
    \o slider_block("chase_layout", "ChaseSlider",
            "Chase Interval: " \o IntToStr(scm_defaults.chase) \o " ms")
    \o slider_block("fade_layout", "FadeSlider",
            "Fade Step: " \o IntToStr(scm_defaults.fade))
    \o slider_block("rainbow_layout", "RainbowSlider",
            "Rainbow Speed: " \o IntToStr(scm_defaults.rainbow) \o " ms")
    \o slider_block("twinkle_layout", "TwinkleSlider",
            "Twinkle Speed: " \o IntToStr(scm_defaults.twinkle))
    \o << Call("main_layout", "MainLayout", "VerticalArrangement", 4,
               << <<"AlignHorizontal", "3">>, <<"Width", "-2">> >>,
               << "title", "connection_row", "status_label", "mode_label",
                  "mode_row1", "mode_row2", "mode_row3", "manual_label",
                  "color_layout", "settings_label", "blink_layout",
                  "chase_layout", "fade_layout", "rainbow_layout",
                  "twinkle_layout" >>),
          Call("notifier", "Notifier1", "Notifier", 6, <<>>, <<>>),
          Call("bluetooth", "BluetoothClient1", "BluetoothClient", 8,
               << <<"Enabled", "True">> >>, <<>>) >>

\* The state of a run of build_scm: the index of the next call, the builder,
\* the locals bound so far, and the Uuid of each descriptor in the order
\* component() returned them.
ScmStart == [i |-> 1, b |-> NewComponentBuilder, locals |-> <<>>, made |-> <<>>]

\* the next call of builder.component, its children looked up among the locals
ScmStep(st) ==
    LET c == ScmCalls[st.i]
        r == component(st.b, c.name, c.type_, c.version, c.props,
                       [k \in 1..Len(c.children) |-> st.locals[c.children[k]]])
    IN  [i |-> st.i + 1,
         b |-> r.b,
         locals |-> (c.var :> r.d) @@ st.locals,
         made |-> Append(st.made, DictGet(r.d, "Uuid").s)]

ScmFinished(st) == st.i > Len(ScmCalls)

RECURSIVE ScmRun(_)
ScmRun(st) == IF ScmFinished(st) THEN st ELSE ScmRun(ScmStep(st))

\* build_scm: properties
ScmProperties(locals) ==
    JDict(<< <<"$Name", JStr("Screen1")>>,
             <<"$Type", JStr("Form")>>,
             <<"$Version", JStr("31")>>,
             <<"AppName", JStr("DigitalGardenController")>>,
             <<"Title", JStr("Digital Garden Controller")>>,
             <<"Scrollable", JStr("True")>>,
             <<"Sizing", JStr("Responsive")>>,
             <<"Theme", JStr("AppTheme.Light.DarkActionBar")>>,
             <<"ShowListsAsJson", JStr("True")>>,
             <<"Uuid", JStr("0")>>,
             <<"$Components", JList(<< locals["main_layout"], locals["notifier"],
                                       locals["bluetooth"] >>)>> >>)

\* build_scm: scm_obj
ScmObj(locals) ==
    JDict(<< <<"authURL", JList(<< JStr("*UNKNOWN*"), JStr("digitalgarden") >>)>>,
             <<"YaVersion", JStr("213")>>,
             <<"Source", JStr("Form")>>,
             <<"Properties", ScmProperties(locals)>> >>)

\* build_scm: the returned text
ScmText(obj) == "#|\n$JSON\n" \o json_dumps(obj) \o "\n|#"

build_scm == ScmText(ScmObj(ScmRun(ScmStart).locals))

(* xml.etree.ElementTree: elements live in a heap and are named by their index, *)
(* so that an element appended to two parents is one object with two parents.  *)

\* dict.__setitem__ on an attribute list kept in insertion order
SetPair(ps, k, v) ==
    IF \E i \in 1..Len(ps) : ps[i][1] = k
    THEN [i \in 1..Len(ps) |-> IF ps[i][1] = k THEN <<k, v>> ELSE ps[i]]
    ELSE Append(ps, <<k, v>>)

HasPair(ps, k) == \E i \in 1..Len(ps) : ps[i][1] = k
GetPair(ps, k) == ps[CHOOSE i \in 1..Len(ps) : ps[i][1] = k][2]
DropPair(ps, k) == SelectSeq(ps, LAMBDA p : p[1] # k)

\* ET.Element(tag, attrib); the new element is h.ret
ET_Element(h, tag, attrib) ==
    [h EXCEPT !.elems = Append(@, [tag |-> tag, attrs |-> attrib,
                                   text |-> "", kids |-> <<>>]),
              !.ret = Len(h.elems) + 1]

\* Element.set
ET_set(h, e, k, v) == [h EXCEPT !.elems[e].attrs = SetPair(@, k, v)]

\* Element.append
ET_append(h, parent, child) == [h EXCEPT !.elems[parent].kids = Append(@, child)]

\* ET.SubElement(parent, tag, attrib)
ET_SubElement(h, parent, tag, attrib) ==
    LET h1 == ET_Element(h, tag, attrib)
    IN  ET_append(h1, parent, h1.ret)

RECURSIVE SetAll(_, _, _)
SetAll(h, e, attrs) ==
    IF attrs = <<>> THEN h
    ELSE SetAll(ET_set(h, e, attrs[1][1], attrs[1][2]), e, Tail(attrs))

\* BlockFactory.__init__
NewBlockFactory == 0

\* BlockFactory.new_block: self.counter is h.counter
new_block(h, type_, attrs) ==
    LET h1 == ET_Element(h, "block", <<>>)
        block == h1.ret
        h2 == ET_set(h1, block, "type", type_)
        h3 == [h2 EXCEPT !.counter = @ + 1]
        id == IF HasPair(attrs, "id") THEN GetPair(attrs, "id")
              ELSE "b" \o IntToStr(h3.counter)
        h4 == ET_set(h3, block, "id", id)
        h5 == SetAll(h4, block, DropPair(attrs, "id"))
    IN  [h5 EXCEPT !.ret = block]

\* mutation(parent, **attrs)
mutation(h, parent, attrs) ==
    LET h1 == ET_SubElement(h, parent, "mutation", <<>>)
        m == h1.ret
    IN  [SetAll(h1, m, attrs) EXCEPT !.ret = m]

\* field(parent, name, text)
field(h, parent, name, text) ==
    LET h1 == ET_SubElement(h, parent, "field", << <<"name", name>> >>)
    IN  [h1 EXCEPT !.elems[h1.ret].text = text]

\* value(parent, name, child)
value(h, parent, name, child) ==
    LET h1 == ET_SubElement(h, parent, "value", << <<"name", name>> >>)
        wrapper == h1.ret
    IN  [ET_append(h1, wrapper, child) EXCEPT !.ret = wrapper]

\* statement(parent, name, child): child = 0 stands for None
statement(h, parent, name, child) ==
    LET h1 == ET_SubElement(h, parent, "statement", << <<"name", name>> >>)
        wrapper == h1.ret
    IN  IF child # 0 THEN [ET_append(h1, wrapper, child) EXCEPT !.ret = wrapper]
        ELSE h1

\* nxt(parent, child)
nxt(h, parent, child) ==
    LET h1 == ET_SubElement(h, parent, "next", <<>>)
        wrapper == h1.ret
    IN  [ET_append(h1, wrapper, child) EXCEPT !.ret = wrapper]

-----------------------------------------------------------------------------
(* build_bky as the sequence of the calls it makes.  A call names the local *)
(* it binds (dst; "_" when the result is dropped) and the locals it reads.  *)

Ins(op, dst, parent, child, name, text, attrs) ==
    << [op |-> op, dst |-> dst, parent |-> parent, child |-> child,
        name |-> name, text |-> text, attrs |-> attrs] >>

c_Element(dst, tag, attrib) == Ins("Element", dst, "", "", tag, "", attrib)
c_SubElement(dst, parent, tag, attrib) ==
    Ins("SubElement", dst, parent, "", tag, "", attrib)
c_append(parent, child) == Ins("append", "_", parent, child, "", "", <<>>)
c_assign(dst, src) == Ins("assign", dst, "", src, "", "", <<>>)
c_new_block(dst, type_, attrs) == Ins("new_block", dst, "", "", type_, "", attrs)
c_mutation(dst, parent, attrs) == Ins("mutation", dst, parent, "", "", "", attrs)
c_field(dst, parent, name, text) == Ins("field", dst, parent, "", name, text, <<>>)
c_value(dst, parent, name, child) == Ins("value", dst, parent, child, name, "", <<>>)
c_statement(dst, parent, name, child) ==
    Ins("statement", dst, parent, child, name, "", <<>>)
c_nxt(dst, parent, child) == Ins("nxt", dst, parent, child, "", "", <<>>)

\* the name of a temporary or of a callee's local
T(dst, local) == dst \o "." \o local

\* value(block, f'{prefix}{index}', item) for index, item in enumerate(items)
RECURSIVE EnumValues(_, _, _, _)
EnumValues(block, prefix, items, index) ==
    IF items = <<>> THEN <<>>
    ELSE c_value("_", block, prefix \o IntToStr(index), items[1])
         \o EnumValues(block, prefix, Tail(items), index + 1)

text_literal(dst, text) ==
    c_new_block(dst, "text", <<>>) \o c_field("_", dst, "TEXT", text)

math_number(dst, number) ==
    c_new_block(dst, "math_number", <<>>)
    \o c_field("_", dst, "NUM", IntToStr(number))

math_arithmetic(dst, op, left, right) ==
    c_new_block(dst, "math_arithmetic", <<>>)
    \o c_field("_", dst, "OP", op)
    \o c_value("_", dst, "A", left)
    \o c_value("_", dst, "B", right)

math_round(dst, child) ==
    c_new_block(dst, "math_round", <<>>)
    \o c_field("_", dst, "OP", "ROUND")
    \o c_value("_", dst, "NUM", child)

lexical_get(dst, name, event_param) ==
    c_new_block(dst, "lexical_variable_get", <<>>)
    \o (IF event_param
        THEN c_mutation(T(dst, "mut"), dst, <<>>)
             \o c_SubElement("_", T(dst, "mut"), "eventparam", << <<"name", name>> >>)
        ELSE <<>>)
    \o c_field("_", dst, "VAR", name)

local_declaration(dst, name, initial, body) ==
    c_new_block(dst, "local_declaration_statement", << <<"inline", "false">> >>)
    \o c_mutation(T(dst, "mut"), dst, <<>>)
    \o c_SubElement("_", T(dst, "mut"), "localname", << <<"name", name>> >>)
    \o c_field("_", dst, "VAR0", name)
    \o c_value("_", dst, "DECL0", initial)
    \o c_statement("_", dst, "STACK", body)

set_property(dst, component_, component_type, prop, child) ==
    c_new_block(dst, "component_set_get", << <<"inline", "false">> >>)
    \o c_mutation("_", dst,
                  << <<"component_type", component_type>>, <<"set_or_get", "set">>,
                     <<"property_name", prop>>, <<"is_generic", "false">>,
                     <<"instance_name", component_>> >>)
    \o c_field("_", dst, "COMPONENT_SELECTOR", component_)
    \o c_field("_", dst, "PROP", prop)
    \o c_value("_", dst, "VALUE", child)

get_property(dst, component_, component_type, prop) ==
    c_new_block(dst, "component_set_get", << <<"inline", "false">> >>)
    \o c_mutation("_", dst,
                  << <<"component_type", component_type>>, <<"set_or_get", "get">>,
                     <<"property_name", prop>>, <<"is_generic", "false">>,
                     <<"instance_name", component_>> >>)
    \o c_field("_", dst, "COMPONENT_SELECTOR", component_)
    \o c_field("_", dst, "PROP", prop)

call_method(dst, component_, component_type, method, args) ==
    c_new_block(dst, "component_method", << <<"inline", "false">> >>)
    \o c_mutation("_", dst,
                  << <<"component_type", component_type>>, <<"method_name", method>>,
                     <<"is_generic", "false">>, <<"instance_name", component_>> >>)
    \o c_field("_", dst, "COMPONENT_SELECTOR", component_)
    \o EnumValues(dst, "ARG", args, 0)

text_join(dst, items) ==
    c_new_block(dst, "text_join", << <<"inline", "false">> >>)
    \o c_mutation("_", dst, << <<"items", IntToStr(Len(items))>> >>)
    \o EnumValues(dst, "ADD", items, 0)

RECURSIVE ArgElements(_, _)
ArgElements(mut, arg_names) ==
    IF arg_names = <<>> THEN <<>>
    ELSE c_SubElement("_", mut, "arg", << <<"name", arg_names[1]>> >>)
         \o ArgElements(mut, Tail(arg_names))

call_procedure(dst, name, arg_names, arg_blocks) ==
    c_new_block(dst, "procedures_callnoreturn", << <<"inline", "false">> >>)
    \o c_mutation(T(dst, "mut"), dst, << <<"name", name>> >>)
    \o ArgElements(T(dst, "mut"), arg_names)
    \o c_field("_", dst, "PROCNAME", name)
    \o EnumValues(dst, "ARG", arg_blocks, 0)

\* x and y are <<>> for None, else <<int>>
component_event(dst, component_type, instance, event, body, x, y) ==
    c_new_block(dst, "component_event",
                (IF x # <<>> THEN << <<"x", IntToStr(x[1])>> >> ELSE <<>>)
                \o (IF y # <<>> THEN << <<"y", IntToStr(y[1])>> >> ELSE <<>>))
    \o c_mutation("_", dst,
                  << <<"component_type", component_type>>, <<"is_generic", "false">>,
                     <<"instance_name", instance>>, <<"event_name", event>> >>)
    \o c_field("_", dst, "COMPONENT_SELECTOR", instance)
    \o c_statement("_", dst, "DO", body)

text_split(dst, text_block, delimiter) ==
    c_new_block(dst, "text_split", << <<"inline", "false">> >>)
    \o c_mutation("_", dst, << <<"mode", "SPLIT">> >>)
    \o c_field("_", dst, "OP", "SPLIT")
    \o c_value("_", dst, "TEXT", text_block)
    \o c_value("_", dst, "AT", delimiter)

select_list_item(dst, list_block, index) ==
    c_new_block(dst, "lists_select_item", <<>>)
    \o c_value("_", dst, "LIST", list_block)
    \o math_number(T(dst, "num"), index)
    \o c_value("_", dst, "NUM", T(dst, "num"))

logic_compare(dst, op, left, right) ==
    c_new_block(dst, "logic_compare", <<>>)
    \o c_field("_", dst, "OP", op)
    \o c_value("_", dst, "A", left)
    \o c_value("_", dst, "B", right)

\* else_block = "" stands for None
controls_if(dst, condition, then_block, else_block) ==
    c_new_block(dst, "controls_if", << <<"inline", "false">> >>)
    \o (IF else_block # "" THEN c_mutation("_", dst, << <<"else", "1">> >>) ELSE <<>>)
    \o c_value("_", dst, "IF0", condition)
    \o c_statement("_", dst, "DO0", then_block)
    \o (IF else_block # "" THEN c_statement("_", dst, "ELSE", else_block) ELSE <<>>)

logic_boolean(dst, value_bool) ==
    c_new_block(dst, "logic_boolean", <<>>)
    \o c_field("_", dst, "BOOL", IF value_bool THEN "TRUE" ELSE "FALSE")

slider_expression(dst, base, delta, subtract) ==
    lexical_get(T(dst, "param"), "thumbPosition", TRUE)
    \o math_number(T(dst, "mult.A"), delta)
    \o math_arithmetic(T(dst, "mult"), "MULTIPLY", T(dst, "mult.A"), T(dst, "param"))
    \o math_number(T(dst, "div.B"), 100)
    \o math_arithmetic(T(dst, "div"), "DIVIDE", T(dst, "mult"), T(dst, "div.B"))
    \o math_number(T(dst, "expr.A"), base)
    \o math_arithmetic(T(dst, "expr"), IF subtract THEN "MINUS" ELSE "ADD",
                       T(dst, "expr.A"), T(dst, "div"))
    \o math_round(dst, T(dst, "expr"))

slider_event(dst, slider, label, command_key, base, delta, subtract, prefix, suffix, x, y) ==
    LET text_parts ==
            << T(dst, "text_parts.0"), T(dst, "text_parts.1") >>
            \o (IF suffix # "" THEN << T(dst, "text_parts.2") >> ELSE <<>>)
    IN  slider_expression(T(dst, "value_expr"), base, delta, subtract)
        \o text_literal(T(dst, "text_parts.0"), prefix)
        \o lexical_get(T(dst, "text_parts.1"), "sliderValue", FALSE)
        \o (IF suffix # "" THEN text_literal(T(dst, "text_parts.2"), suffix) ELSE <<>>)
        \o text_join(T(dst, "label_text"), text_parts)
        \o set_property(T(dst, "label_block"), label, "Label", "Text",
                        T(dst, "label_text"))
        \o text_literal(T(dst, "send.0"), "SET " \o command_key \o " ")
        \o lexical_get(T(dst, "send.1"), "sliderValue", FALSE)
        \o text_join(T(dst, "send.arg"), << T(dst, "send.0"), T(dst, "send.1") >>)
        \o call_procedure(T(dst, "send_block"), "SendCommand", << "cmd" >>,
                          << T(dst, "send.arg") >>)
        \o c_nxt("_", T(dst, "label_block"), T(dst, "send_block"))
        \o local_declaration(T(dst, "local_body"), "sliderValue",
                             T(dst, "value_expr"), T(dst, "label_block"))
        \o component_event(dst, "Slider", slider, "PositionChanged",
                           T(dst, "local_body"), x, y)

\* build_bky: procedure SendCommand
BkyProcedure ==
    c_new_block("proc", "procedures_defnoreturn", << <<"x", "40">>, <<"y", "20">> >>)
    \o c_mutation("mut", "proc", <<>>)
    \o c_SubElement("_", "mut", "arg", << <<"name", "cmd">> >>)
    \o c_field("_", "proc", "NAME", "SendCommand")
    \o c_field("_", "proc", "VAR0", "cmd")
    \o c_statement("stack", "proc", "STACK", "")
    \o get_property("cond", "BluetoothClient1", "BluetoothClient", "IsConnected")
    \o lexical_get("send_text.0.0", "cmd", FALSE)
    \o text_literal("send_text.0.1", "\\n")
    \o text_join("send_text.0", << "send_text.0.0", "send_text.0.1" >>)
    \o call_method("send_text", "BluetoothClient1", "BluetoothClient", "SendText",
                   << "send_text.0" >>)
    \o text_literal("alert.0", "Connect to the ESP32 over Bluetooth first.")
    \o call_method("alert", "Notifier1", "Notifier", "ShowAlert", << "alert.0" >>)
    \o controls_if("stack.0", "cond", "send_text", "alert")
    \o c_append("stack", "stack.0")
    \o c_append("root", "proc")

\* init_slider_text(label, text_value), bound to dst
init_slider_text(dst, label, text_value) ==
    text_literal(T(dst, "VALUE"), text_value)
    \o set_property(dst, label, "Label", "Text", T(dst, "VALUE"))

\* the (label_name, text) pairs of the loop in Screen1.Initialize
InitLabels ==
    << << "BlinkLabel",
          "Blink Interval: " \o IntToStr(bky_defaults.blink) \o " ms" >>,
       << "ChaseLabel",
          "Chase Interval: " \o IntToStr(bky_defaults.chase) \o " ms" >>,
       << "FadeLabel", "Fade Step: " \o IntToStr(bky_defaults.fade) >>,
       << "RainbowLabel",
          "Rainbow Speed: " \o IntToStr(bky_defaults.rainbow) \o " ms" >>,
       << "TwinkleLabel", "Twinkle Speed: " \o IntToStr(bky_defaults.twinkle) >> >>

RECURSIVE InitLabelLoop(_)
InitLabelLoop(pairs) ==
    IF pairs = <<>> THEN <<>>
    ELSE init_slider_text("next_block", pairs[1][1], pairs[1][2])
         \o c_nxt("_", "current_block", "next_block")
         \o c_assign("current_block", "next_block")
         \o InitLabelLoop(Tail(pairs))

\* build_bky: Screen1.Initialize
BkyInitialize ==
    text_literal("init_body_first.VALUE", "Tap Connect to pair with WIFILampV1.")
    \o set_property("init_body_first", "StatusLabel", "Label", "Text",
                    "init_body_first.VALUE")
    \o c_assign("current_block", "init_body_first")
    \o InitLabelLoop(InitLabels)
    \o component_event("init_block", "Form", "Screen1", "Initialize",
                       "init_body_first", << 40 >>, << 220 >>)
    \o c_append("root", "init_block")

\* build_bky: ConnectPicker.BeforePicking
BkyBeforePicking ==
    get_property("before_body.VALUE", "BluetoothClient1", "BluetoothClient",
                 "AddressesAndNames")
    \o set_property("before_body", "ConnectPicker", "ListPicker", "Elements",
                    "before_body.VALUE")
    \o component_event("before_event", "ListPicker", "ConnectPicker",
                       "BeforePicking", "before_body", << 320 >>, << 20 >>)
    \o c_append("root", "before_event")

\* build_bky: ConnectPicker.AfterPicking
BkyAfterPicking ==
    get_property("selection", "ConnectPicker", "ListPicker", "Selection")
    \o text_literal("empty_text", "")
    \o logic_compare("condition", "NEQ", "selection", "empty_text")
    \o get_property("parts.TEXT", "ConnectPicker", "ListPicker", "Selection")
    \o text_literal("parts.AT", "\\n")
    \o text_split("parts", "parts.TEXT", "parts.AT")
    \o select_list_item("device_name", "parts", 1)
    \o get_property("device_address.LIST.TEXT", "ConnectPicker", "ListPicker",
                    "Selection")
    \o text_literal("device_address.LIST.AT", "\\n")
    \o text_split("device_address.LIST", "device_address.LIST.TEXT",
                  "device_address.LIST.AT")
    \o select_list_item("device_address", "device_address.LIST", 2)
    \o call_method("connect_call", "BluetoothClient1", "BluetoothClient", "Connect",
                   << "device_address" >>)
    \o text_literal("success_text.0", "Connected to ")
    \o text_join("success_text", << "success_text.0", "device_name" >>)
    \o set_property("success_body", "StatusLabel", "Label", "Text", "success_text")
    \o call_method("success_body.next", "Notifier1", "Notifier", "ShowAlert",
                   << "success_text" >>)
    \o c_nxt("_", "success_body", "success_body.next")
    \o text_literal("failure_text",
                    "Connection failed. Make sure the lamp is discoverable.")
    \o set_property("failure_body", "StatusLabel", "Label", "Text", "failure_text")
    \o call_method("failure_body.next", "Notifier1", "Notifier", "ShowAlert",
                   << "failure_text" >>)
    \o c_nxt("_", "failure_body", "failure_body.next")
    \o controls_if("connect_if", "connect_call", "success_body", "failure_body")
    \o controls_if("after_body", "condition", "connect_if", "")
    \o component_event("after_event", "ListPicker", "ConnectPicker", "AfterPicking",
                       "after_body", << 320 >>, << 200 >>)
    \o c_append("root", "after_event")

RECURSIVE DisconnectLoop(_)
DisconnectLoop(checkboxes) ==
    IF checkboxes = <<>> THEN <<>>
    ELSE logic_boolean("checkbox_block.VALUE", FALSE)
         \o set_property("checkbox_block", checkboxes[1], "CheckBox", "Checked",
                         "checkbox_block.VALUE")
         \o c_nxt("current", "current", "checkbox_block")
         \o DisconnectLoop(Tail(checkboxes))

\* build_bky: DisconnectButton.Click
BkyDisconnect ==
    call_method("disconnect_first", "BluetoothClient1", "BluetoothClient",
                "Disconnect", <<>>)
    \o c_assign("current", "disconnect_first")
    \o text_literal("status_reset.VALUE", "Disconnected.")
    \o set_property("status_reset", "StatusLabel", "Label", "Text",
                    "status_reset.VALUE")
    \o c_nxt("current", "current", "status_reset")
    \o DisconnectLoop(<< "CheckBoxRed", "CheckBoxGreen", "CheckBoxBlue",
                         "CheckBoxWhite" >>)
    \o text_literal("alert_block.0", "Disconnected.")
    \o call_method("alert_block", "Notifier1", "Notifier", "ShowAlert",
                   << "alert_block.0" >>)
    \o c_nxt("_", "current", "alert_block")
    \o component_event("disconnect_event", "Button", "DisconnectButton", "Click",
                       "disconnect_first", << 40 >>, << 420 >>)
    \o c_append("root", "disconnect_event")

\* modes.items()
modes ==
    << << "ManualButton", "MODE MANUAL" >>,
       << "ChaseButton", "MODE CHASE" >>,
       << "BlinkModeButton", "MODE BLINK" >>,
       << "FadeModeButton", "MODE FADE" >>,
       << "RainbowModeButton", "MODE RAINBOW" >> >>

\* build_bky: one iteration of the loop over the mode buttons
BkyModeButton(name, command, offset) ==
    text_literal("body.0", command)
    \o call_procedure("body", "SendCommand", << "cmd" >>, << "body.0" >>)
    \o component_event("event", "Button", name, "Click", "body",
                       << 40 >>, << offset >>)
    \o c_append("root", "event")

\* colors.items()
colors ==
    << << "CheckBoxRed", "RED ON", "RED OFF" >>,
       << "CheckBoxGreen", "GREEN ON", "GREEN OFF" >>,
       << "CheckBoxBlue", "BLUE ON", "BLUE OFF" >>,
       << "CheckBoxWhite", "WHITE ON", "WHITE OFF" >> >>

\* build_bky: one iteration of the loop over the checkboxes
BkyCheckBox(name, on_cmd, off_cmd, offset) ==
    text_literal("true_call.0", on_cmd)
    \o call_procedure("true_call", "SendCommand", << "cmd" >>, << "true_call.0" >>)
    \o text_literal("false_call.0", off_cmd)
    \o call_procedure("false_call", "SendCommand", << "cmd" >>, << "false_call.0" >>)
    \o lexical_get("condition", "value", TRUE)
    \o controls_if("body", "condition", "true_call", "false_call")
    \o component_event("event", "CheckBox", name, "Changed", "body",
                       << 600 >>, << offset >>)
    \o c_append("root", "event")

slider_specs ==
    << [slider |-> "BlinkSlider", label |-> "BlinkLabel", key |-> "BLINK",
        base |-> 2000, delta |-> 1950, subtract |-> TRUE,
        prefix |-> "Blink Interval: ", suffix |-> " ms"],
       [slider |-> "ChaseSlider", label |-> "ChaseLabel", key |-> "CHASE",
        base |-> 2000, delta |-> 1950, subtract |-> TRUE,
        prefix |-> "Chase Interval: ", suffix |-> " ms"],
       [slider |-> "FadeSlider", label |-> "FadeLabel", key |-> "FADE",
        base |-> 1, delta |-> 19, subtract |-> FALSE,
        prefix |-> "Fade Step: ", suffix |-> ""],
       [slider |-> "RainbowSlider", label |-> "RainbowLabel", key |-> "RAINBOW",
        base |-> 200, delta |-> 190, subtract |-> TRUE,
        prefix |-> "Rainbow Speed: ", suffix |-> " ms"],
       [slider |-> "TwinkleSlider", label |-> "TwinkleLabel", key |-> "TWINKLE",
        base |-> 1, delta |-> 99, subtract |-> FALSE,
        prefix |-> "Twinkle Speed: ", suffix |-> ""] >>

\* build_bky: one iteration of the loop over slider_specs
BkySlider(spec, offset) ==
    slider_event("event", spec.slider, spec.label, spec.key, spec.base, spec.delta,
                 spec.subtract, spec.prefix, spec.suffix, << 900 >>, << offset >>)
    \o c_append("root", "event")

\* build_bky: root
BkyRoot == c_Element("root", "xml", << <<"xmlns", "http://www.w3.org/1999/xhtml">> >>)

Stmt(kind, calls) == << [kind |-> kind, calls |-> calls] >>

RECURSIVE ModeLoop(_, _)
ModeLoop(items, offset) ==
    IF items = <<>> THEN <<>>
    ELSE Stmt("mode", BkyModeButton(items[1][1], items[1][2], offset))
         \o ModeLoop(Tail(items), offset + 120)

RECURSIVE CheckBoxLoop(_, _)
CheckBoxLoop(items, offset) ==
    IF items = <<>> THEN <<>>
    ELSE Stmt("checkbox", BkyCheckBox(items[1][1], items[1][2], items[1][3], offset))
         \o CheckBoxLoop(Tail(items), offset + 140)

RECURSIVE SliderLoop(_, _)
SliderLoop(specs, offset) ==
    IF specs = <<>> THEN <<>>
    ELSE Stmt("slider", BkySlider(specs[1], offset))
         \o SliderLoop(Tail(specs), offset + 200)

\* the parts of build_bky in execution order, loops unrolled by iteration
BkyStatements ==
    Stmt("root", BkyRoot)
    \o Stmt("procedure", BkyProcedure)
    \o Stmt("initialize", BkyInitialize)
    \o Stmt("before_picking", BkyBeforePicking)
    \o Stmt("after_picking", BkyAfterPicking)
    \o Stmt("disconnect", BkyDisconnect)
    \o ModeLoop(modes, 640)
    \o CheckBoxLoop(colors, 40)
    \o SliderLoop(slider_specs, 40)

RECURSIVE ConcatCalls(_)
ConcatCalls(stmts) ==
    IF stmts = <<>> THEN <<>> ELSE stmts[1].calls \o ConcatCalls(Tail(stmts))

\* the calls of build_bky, in evaluation order
BkyCalls == ConcatCalls(BkyStatements)

\* index in BkyCalls of the first call of part k
RECURSIVE StmtStart(_)
StmtStart(k) ==
    IF k = 1 THEN 1 ELSE StmtStart(k - 1) + Len(BkyStatements[k - 1].calls)

\* The state of a run of build_bky: the index of the next call, the factory's
\* counter, the elements made so far, the locals, and the last result.
BkyStart ==
    [i |-> 1, counter |-> NewBlockFactory, elems |-> <<>>,
     regs |-> ("_" :> 0), ret |-> 0]

\* the element a local names; "" is None
Reg(st, r) == IF r = "" THEN 0 ELSE st.regs[r]

Bind(st, dst) ==
    [st EXCEPT !.regs = (dst :> st.ret) @@ st.regs, !.i = st.i + 1]

\* the next call of build_bky
BkyStep(st) ==
    LET c == BkyCalls[st.i]
    IN  CASE c.op = "Element" -> Bind(ET_Element(st, c.name, c.attrs), c.dst)
          [] c.op = "SubElement" ->
                Bind(ET_SubElement(st, Reg(st, c.parent), c.name, c.attrs), c.dst)
          [] c.op = "append" ->
                [ET_append(st, Reg(st, c.parent), Reg(st, c.child))
                    EXCEPT !.i = st.i + 1]
          [] c.op = "assign" ->
                [st EXCEPT !.regs = (c.dst :> Reg(st, c.child)) @@ st.regs,
                           !.i = st.i + 1]
          [] c.op = "new_block" -> Bind(new_block(st, c.name, c.attrs), c.dst)
          [] c.op = "mutation" ->
                Bind(mutation(st, Reg(st, c.parent), c.attrs), c.dst)
          [] c.op = "field" ->
                Bind(field(st, Reg(st, c.parent), c.name, c.text), c.dst)
          [] c.op = "value" ->
                Bind(value(st, Reg(st, c.parent), c.name, Reg(st, c.child)), c.dst)
          [] c.op = "statement" ->
                Bind(statement(st, Reg(st, c.parent), c.name, Reg(st, c.child)),
                     c.dst)
          [] c.op = "nxt" ->
                Bind(nxt(st, Reg(st, c.parent), Reg(st, c.child)), c.dst)

BkyFinished(st) == st.i > Len(BkyCalls)

\* the calls from..to applied in order to a state that is at call `from`
\* (halving the range keeps the evaluation shallow)
RECURSIVE BkyRunRange(_, _, _)
BkyRunRange(st, from, to) ==
    IF st.i > to THEN st
    ELSE IF from = to THEN BkyStep(st)
    ELSE LET mid == (from + to) \div 2
         IN  BkyRunRange(BkyRunRange(st, from, mid), mid + 1, to)

BkyRun(st) == BkyRunRange(st, st.i, Len(BkyCalls))

\* ET.tostring(root, encoding='utf-8').decode('utf-8'); nothing here needs escaping
RECURSIVE tostring(_, _)
RECURSIVE tostring_all(_, _)
RECURSIVE attrs_text(_)
attrs_text(attrs) ==
    IF attrs = <<>> THEN ""
    ELSE " " \o attrs[1][1] \o "=\"" \o attrs[1][2] \o "\"" \o attrs_text(Tail(attrs))
tostring(elems, e) ==
    LET el == elems[e]
    IN  "<" \o el.tag \o attrs_text(el.attrs)
        \o (IF el.text # "" \/ el.kids # <<>>
            THEN ">" \o el.text \o tostring_all(elems, el.kids)
                 \o "</" \o el.tag \o ">"
            ELSE " />")
tostring_all(elems, kids) ==
    IF kids = <<>> THEN ""
    ELSE tostring(elems, kids[1]) \o tostring_all(elems, Tail(kids))

\* build_bky: the returned text
BkyText(st) == tostring(st.elems, st.regs["root"])

build_bky == BkyText(BkyRun(BkyStart))

-----------------------------------------------------------------------------
(* Generating entry point: write_files *)

\* variant of the archive step that opens the archive in append mode
write_files_archive_append(f, d) ==
    LET kept == SelectSeq(sorted(rglob(f, d, PROJECT_DIR)),
                          LAMBDA p : is_file(f, p)
                                        /\ PathName(p) # PathName(AIA_PATH))
    IN  [f EXCEPT ![AIA_PATH] = Zip(f[AIA_PATH].members \o ZipMembers(f, kept))]

\* the archive step of write_files: ZipFile(aia_path, "w"), then every regular
\* file whose name differs from the archive's name
write_files_archive(f, d) ==
    LET opened == [f EXCEPT ![AIA_PATH] = Zip(<<>>)]
        kept == SelectSeq(sorted(rglob(opened, d, PROJECT_DIR)),
                          LAMBDA p : is_file(opened, p)
                                        /\ PathName(p) # PathName(AIA_PATH))
    IN  [opened EXCEPT ![AIA_PATH] = Zip(ZipMembers(opened, kept))]

StartWriteFiles ==
    /\ pc = "idle"
    /\ pc' = "w_mkdir"
    /\ UNCHANGED gvars
    /\ UNCHANGED <<fs, dirs, err, git_status, stdout, listed, conflicts,
                 queried, written, fs0, lastOk>>

WriteFilesMkdirs ==
    /\ pc = "w_mkdir"
    /\ dirs' = mkdir(mkdir(mkdir(mkdir(dirs, PROJECT_DIR), SRC_DIR), ASSETS_DIR),
                     YOUNG_DIR)
    /\ pc' = "w_scm"
    /\ UNCHANGED gvars
    /\ UNCHANGED <<fs, err, git_status, stdout, listed, conflicts,
                 queried, written, fs0, lastOk>>

WriteFilesScm ==
    /\ pc = "w_scm"
    /\ fs' = write_text(fs, SCM_PATH, build_scm)
    /\ written' = written \cup { SCM_PATH }
    /\ pc' = "w_bky"
    /\ UNCHANGED gvars
    /\ UNCHANGED <<dirs, err, git_status, stdout, listed, conflicts,
                 queried, fs0, lastOk>>

WriteFilesBky ==
    /\ pc = "w_bky"
    /\ fs' = write_text(fs, BKY_PATH, build_bky)
    /\ written' = written \cup { BKY_PATH }
    /\ pc' = "w_nomedia"
    /\ UNCHANGED gvars
    /\ UNCHANGED <<dirs, err, git_status, stdout, listed, conflicts,
                 queried, fs0, lastOk>>

WriteFilesNomedia ==
    /\ pc = "w_nomedia"
    /\ fs' = write_text(fs, NOMEDIA_PATH, "")
    /\ written' = written \cup { NOMEDIA_PATH }
    /\ pc' = "w_properties"
    /\ UNCHANGED gvars
    /\ UNCHANGED <<dirs, err, git_status, stdout, listed, conflicts,
                 queried, fs0, lastOk>>

WriteFilesProperties ==
    /\ pc = "w_properties"
    /\ fs' = write_text(fs, PROPERTIES_PATH, project_properties)
    /\ written' = written \cup { PROPERTIES_PATH }
    /\ pc' = "w_aia"
    /\ UNCHANGED gvars
    /\ UNCHANGED <<dirs, err, git_status, stdout, listed, conflicts,
                 queried, fs0, lastOk>>

WriteFilesArchive ==
    /\ pc = "w_aia"
    /\ fs' = write_files_archive(fs, dirs)
    /\ written' = written \cup { AIA_PATH }
    /\ pc' = "w_done"
    /\ UNCHANGED gvars
    /\ UNCHANGED <<dirs, err, git_status, stdout, listed, conflicts,
                 queried, fs0, lastOk>>

-----------------------------------------------------------------------------
(* End of a run, and source changes between runs *)

RunEnded == pc \in { "m_done", "m_failed", "w_done" }

\* the process exits; the next run starts from the files as they are now
Exit ==
    /\ RunEnded
    /\ pc' = "idle"
    /\ err' = NoError
    /\ git_status' = "none"
    /\ stdout' = <<>>
    /\ listed' = <<>>
    /\ conflicts' = <<>>
    /\ queried' = FALSE
    /\ written' = {}
    /\ fs0' = fs
    /\ lastOk' = CASE pc = "m_done" -> "main"
                   [] pc = "w_done" -> "write_files"
                   [] OTHER -> lastOk
    /\ UNCHANGED gvars
    /\ UNCHANGED <<fs, dirs>>

EditablePaths == { NOTES_PATH, NESTED_AIA_PATH, PROPERTIES_PATH }
DeletablePaths == { NOTES_PATH, NESTED_AIA_PATH, SCM_PATH, BKY_PATH }

\* a file of the project directory is created or edited by hand
EnvEdit ==
    /\ pc = "idle"
    /\ \E p \in EditablePaths, v \in 1..MaxVersions :
        /\ fs[p] # UserText(v)
        /\ fs' = [fs EXCEPT ![p] = UserText(v)]
        /\ dirs' = mkdir(dirs, SubSeq(p, 1, Len(p) - 1))
    /\ fs0' = fs'
    /\ lastOk' = "none"
    /\ UNCHANGED gvars
    /\ UNCHANGED <<pc, err, git_status, stdout, listed, conflicts,
                 queried, written>>

\* a file of the project directory is deleted
EnvDelete ==
    /\ pc = "idle"
    /\ \E p \in DeletablePaths :
        /\ is_file(fs, p)
        /\ fs' = [fs EXCEPT ![p] = Absent]
    /\ fs0' = fs'
    /\ lastOk' = "none"
    /\ UNCHANGED gvars
    /\ UNCHANGED <<dirs, pc, err, git_status, stdout, listed, conflicts,
                 queried, written>>

\* `git checkout -- app_inventor` restores a descriptor
EnvCheckout ==
    /\ pc = "idle"
    /\ \E i \in 1..Len(REQUIRED_FILES) :
        /\ fs[REQUIRED_FILES[i]] # CheckedIn(REQUIRED_FILES[i])
        /\ fs' = [fs EXCEPT ![REQUIRED_FILES[i]] = CheckedIn(REQUIRED_FILES[i])]
    /\ fs0' = fs'
    /\ lastOk' = "none"
    /\ UNCHANGED gvars
    /\ UNCHANGED <<dirs, pc, err, git_status, stdout, listed, conflicts,
                 queried, written>>

-----------------------------------------------------------------------------
(* Specification of the two entry points over one checkout *)

PackInit ==
    /\ \E missing \in SUBSET { ASSETS_DIR, YOUNG_DIR } : dirs = AllDirs \ missing
    /\ fs = [p \in FilePaths |->
                IF p \in { SCM_PATH, BKY_PATH } THEN CheckedIn(p)
                ELSE IF p = README_PATH THEN UserText(0)
                ELSE Absent]
    /\ pc = "idle"
    /\ err = NoError
    /\ git_status = "none"
    /\ stdout = <<>>
    /\ listed = <<>>
    /\ conflicts = <<>>
    /\ queried = FALSE
    /\ written = {}
    /\ fs0 = fs
    /\ lastOk = "none"

GenInit ==
    /\ gpc = "idle"
    /\ scm = ScmStart
    /\ bky = BkyStart
    /\ scm_text = ""
    /\ bky_text = ""
    /\ runs = 0

Init == PackInit /\ GenInit

Next ==
    \/ StartMain
    \/ MainEnsureRequiredFiles
    \/ MainEnsureNoConflicts
    \/ MainEnsureAssets
    \/ MainEnsureProjectProperties
    \/ MainWriteAia
    \/ StartWriteFiles
    \/ WriteFilesMkdirs
    \/ WriteFilesScm
    \/ WriteFilesBky
    \/ WriteFilesNomedia
    \/ WriteFilesProperties
    \/ WriteFilesArchive
    \/ Exit
    \/ EnvEdit
    \/ EnvDelete
    \/ EnvCheckout

Spec == Init /\ [][Next]_vars

-----------------------------------------------------------------------------
(* Properties of the packaging entry point (specification Spec) *)

SeqToSet(q) == { q[i] : i \in 1..Len(q) }

\* the three outputs of main
Outputs == { NOMEDIA_PATH, PROPERTIES_PATH, AIA_PATH }

\* the run has neither written the paths nor changed their content
Untouched(P) == \A p \in P : p \notin written /\ fs[p] = fs0[p]

\* positions of main after ensure_required_files returned or raised
AfterRequired ==
    { "m_conflicts", "m_assets", "m_properties", "m_aia", "m_done", "m_failed" }

\* C1: whenever the conflict query returned at least one path other than the
\* output archive, the run has ended in a ConflictError, none of .nomedia,
\* project.properties and the archive is written or modified, and the message
\* lists each conflicting path other than the archive exactly once.
C1_ConflictGate ==
    LET others == { p \in SeqToSet(listed) : p # AIA_PATH }
    IN  (queried /\ others # {}) =>
            /\ pc = "m_failed"
            /\ err.kind = "ConflictError"
            /\ Untouched(Outputs)
            /\ SeqToSet(err.paths) = { relative_to(p, REPO_ROOT) : p \in others }
            /\ Len(err.paths) = Cardinality(others)

\* a run stopped by a conflict in a descriptor while the archive is conflicted
\* too and an earlier properties file is on disk
C1_Witness ==
    /\ pc = "m_failed"
    /\ err.kind = "ConflictError"
    /\ AIA_PATH \in SeqToSet(listed)
    /\ err.paths = << relative_to(SCM_PATH, REPO_ROOT) >>
    /\ fs[PROPERTIES_PATH].kind = "text"

\* C2: if Screen1.scm or Screen1.bky was absent when main started, the run has
\* ended in a FileNotFoundError naming each missing path, the conflict query
\* was not issued, and .nomedia, project.properties and the archive are as
\* they were before the run.
C2_MissingGate ==
    LET absent == { p \in SeqToSet(REQUIRED_FILES) : fs0[p].kind = "absent" }
    IN  (pc \in AfterRequired /\ absent # {}) =>
            /\ pc = "m_failed"
            /\ err.kind = "FileNotFoundError"
            /\ SeqToSet(err.paths) = absent
            /\ Len(err.paths) = Cardinality(absent)
            /\ ~queried
            /\ Untouched(Outputs)

\* a run stopped because only Screen1.bky is missing, an archive being on disk
C2_Witness ==
    /\ pc = "m_failed"
    /\ err.kind = "FileNotFoundError"
    /\ err.paths = << BKY_PATH >>
    /\ fs[AIA_PATH].kind = "zip"

\* regular files now under the project directory, the output archive excepted
ProjectFiles ==
    { p \in FilePaths : /\ IsPrefix(PROJECT_DIR, p)
                        /\ fs[p].kind # "absent"
                        /\ p # AIA_PATH }

MemberName(p) == relative_to(p, PROJECT_DIR)

\* C3: after either archive writer, every regular file under the project
\* directory other than the output archive is exactly one member, named by
\* its path relative to the project directory, and nothing else is a member.
C3_ArchiveComplete ==
    pc \in { "m_done", "w_done" } =>
        LET ms == fs[AIA_PATH].members
        IN  /\ \A p \in ProjectFiles :
                 Cardinality({ i \in 1..Len(ms) : ms[i].name = MemberName(p) }) = 1
            /\ \A i \in 1..Len(ms) :
                 \E p \in ProjectFiles : ms[i].name = MemberName(p)

\* the entry point whose completed run is being repeated
Repeated ==
    \/ pc = "w_done" /\ lastOk = "write_files"
    \/ pc = "m_done" /\ lastOk = "main"

\* C4: when an entry point completes right after a completed run of the same
\* entry point with no source change in between, Screen1.scm, Screen1.bky,
\* project.properties and .nomedia have the content the first run left, the
\* archive has the same members in the same order with the same content, and
\* the archive of the first run is not a member.
C4_Idempotent ==
    Repeated =>
        /\ \A p \in { SCM_PATH, BKY_PATH, PROPERTIES_PATH, NOMEDIA_PATH } :
             fs[p].kind = "text" /\ fs[p] = fs0[p]
        /\ fs0[AIA_PATH].kind = "zip"
        /\ fs[AIA_PATH].members = fs0[AIA_PATH].members
        /\ \A i \in 1..Len(fs[AIA_PATH].members) :
             fs[AIA_PATH].members[i].name # MemberName(AIA_PATH)

\* write_files completed twice in a row over a project holding a notes file
C4_Witness ==
    /\ pc = "w_done"
    /\ lastOk = "write_files"
    /\ fs[NOTES_PATH].kind = "text"
    /\ Len(fs[AIA_PATH].members) >= 5

\* C9: a run of main that ended has either written .nomedia, project.properties
\* and the archive, all three, or ended in the error of a gate with no file
\* written or modified; never some of the three without the others.
C9_NoPartialSuccess ==
    /\ pc = "m_done" =>
        /\ err = NoError
        /\ Outputs \subseteq written
        /\ fs[NOMEDIA_PATH] = Text("")
        /\ fs[PROPERTIES_PATH].kind = "text"
        /\ fs[AIA_PATH].kind = "zip"
    /\ pc = "m_failed" =>
        /\ err.kind \in { "FileNotFoundError", "ConflictError", "RuntimeError" }
        /\ written = {}
        /\ fs = fs0
    /\ pc \in { "m_done", "m_failed" } => (written \cap Outputs) \in { {}, Outputs }

\* a first run of main that passed the gates and created all three outputs
C9_Witness ==
    /\ pc = "m_done"
    /\ queried
    /\ \A p \in Outputs : fs0[p].kind = "absent" /\ fs[p].kind # "absent"

\* C10: after a successful packaging run the member names are exactly the
\* regular files now under the project directory minus the archive, no member
\* stands for a file that no longer exists, and each member holds its file's
\* current content.
C10_ArchiveRebuilt ==
    pc \in { "m_done", "w_done" } =>
        LET ms == fs[AIA_PATH].members
        IN  /\ { ms[i].name : i \in 1..Len(ms) }
                 = { MemberName(p) : p \in ProjectFiles }
            /\ \A i \in 1..Len(ms) :
                 /\ fs[Join(PROJECT_DIR, ms[i].name)].kind # "absent"
                 /\ ms[i].data = fs[Join(PROJECT_DIR, ms[i].name)]

\* C11: when the conflict query failed, the run has stopped with the
\* RuntimeError of list_git_conflicts, the query ran once and was not followed
\* by a result, and no step of ensure_assets, ensure_project_properties or
\* write_aia has run: nothing is written and every file is as it was.
C11_QueryFailureFatal ==
    git_status = "failed" =>
        /\ pc = "m_failed"
        /\ err = [kind |-> "RuntimeError", paths |-> <<>>]
        /\ queried
        /\ listed = <<>> /\ conflicts = <<>>
        /\ written = {}
        /\ fs = fs0

\* a run stopped by a failed query while earlier outputs are on disk
C11_Witness ==
    /\ git_status = "failed"
    /\ pc = "m_failed"
    /\ err.kind = "RuntimeError"
    /\ fs[AIA_PATH].kind = "zip"
    /\ fs[NOMEDIA_PATH].kind = "text"

\* C12: when both descriptors exist and the query reported no path or only
\* the output archive, no error is raised and main is on its way through
\* ensure_assets, ensure_project_properties and write_aia, all three outputs
\* being written when it is done; when the archive is reported together with
\* other paths, the run has aborted with a ConflictError that lists the other
\* paths and not the archive.
C12_ArchiveExempt ==
    LET reported == SeqToSet(listed)
        others == reported \ { AIA_PATH }
        present == \A i \in 1..Len(REQUIRED_FILES) :
                        fs0[REQUIRED_FILES[i]].kind # "absent"
    IN  /\ (queried /\ git_status = "ok" /\ present /\ others = {}) =>
                /\ err = NoError
                /\ conflicts = <<>>
                /\ pc \in { "m_assets", "m_properties", "m_aia", "m_done" }
                /\ pc = "m_properties" => written = { NOMEDIA_PATH }
                /\ pc = "m_aia" => written = { NOMEDIA_PATH, PROPERTIES_PATH }
                /\ pc = "m_done" => written = Outputs
        /\ (queried /\ AIA_PATH \in reported /\ others # {}) =>
                /\ pc = "m_failed"
                /\ err.kind = "ConflictError"
                /\ relative_to(AIA_PATH, REPO_ROOT) \notin SeqToSet(err.paths)
                /\ \A p \in others : relative_to(p, REPO_ROOT) \in SeqToSet(err.paths)

\* a run that packaged the project although the archive was reported conflicted
C12_Witness ==
    /\ pc = "m_done"
    /\ listed = << AIA_PATH >>
    /\ written = Outputs
    /\ fs[AIA_PATH].kind = "zip"

-----------------------------------------------------------------------------
(* The two builders followed call by call: the first two statements of       *)
(* write_files, `scm_text = build_scm()` and `bky_text = build_bky()`.       *)

\* build_scm is entered: builder = ComponentBuilder()
GenStart ==
    /\ gpc = "idle"
    /\ runs < MaxRuns
    /\ gpc' = "build_scm"
    /\ scm' = ScmStart
    /\ bky' = BkyStart
    /\ scm_text' = ""
    /\ bky_text' = ""
    /\ UNCHANGED runs
    /\ UNCHANGED pvars

\* one builder.component(...) call of build_scm
GenScmComponent ==
    /\ gpc = "build_scm"
    /\ ~ScmFinished(scm)
    /\ scm' = ScmStep(scm)
    /\ UNCHANGED <<gpc, bky, scm_text, bky_text, runs>>
    /\ UNCHANGED pvars

\* build_scm returns; build_bky is entered: factory = BlockFactory()
GenScmReturn ==
    /\ gpc = "build_scm"
    /\ ScmFinished(scm)
    /\ scm_text' = ScmText(ScmObj(scm.locals))
    /\ gpc' = "build_bky"
    /\ UNCHANGED <<scm, bky, bky_text, runs>>
    /\ UNCHANGED pvars

\* the part of build_bky that is next
NextStmt ==
    LET k == CHOOSE k \in 1..Len(BkyStatements) : StmtStart(k) = bky.i
    IN  BkyStatements[k]

\* one part of build_bky of the given kind
GenBky(kind) ==
    /\ gpc = "build_bky"
    /\ ~BkyFinished(bky)
    /\ NextStmt.kind = kind
    /\ bky' = BkyRunRange(bky, bky.i, bky.i + Len(NextStmt.calls) - 1)
    /\ UNCHANGED <<gpc, scm, scm_text, bky_text, runs>>
    /\ UNCHANGED pvars

GenBkyRoot == GenBky("root")
GenBkyProcedure == GenBky("procedure")
GenBkyInitialize == GenBky("initialize")
GenBkyBeforePicking == GenBky("before_picking")
GenBkyAfterPicking == GenBky("after_picking")
GenBkyDisconnect == GenBky("disconnect")
GenBkyModeButton == GenBky("mode")
GenBkyCheckBox == GenBky("checkbox")
GenBkySlider == GenBky("slider")

\* build_bky returns
GenBkyReturn ==
    /\ gpc = "build_bky"
    /\ BkyFinished(bky)
    /\ bky_text' = BkyText(bky)
    /\ gpc' = "built"
    /\ UNCHANGED <<scm, bky, scm_text, runs>>
    /\ UNCHANGED pvars

\* both texts are built; the run is over
GenExit ==
    /\ gpc = "built"
    /\ gpc' = "idle"
    /\ runs' = runs + 1
    /\ UNCHANGED <<scm, bky, scm_text, bky_text>>
    /\ UNCHANGED pvars

GenPackInit ==
    /\ dirs = AllDirs
    /\ fs = [p \in FilePaths |->
                IF p \in { SCM_PATH, BKY_PATH } THEN CheckedIn(p)
                ELSE IF p = README_PATH THEN UserText(0)
                ELSE Absent]
    /\ pc = "idle"
    /\ err = NoError
    /\ git_status = "none"
    /\ stdout = <<>>
    /\ listed = <<>>
    /\ conflicts = <<>>
    /\ queried = FALSE
    /\ written = {}
    /\ fs0 = fs
    /\ lastOk = "none"

GenNext ==
    \/ GenStart
    \/ GenScmComponent
    \/ GenScmReturn
    \/ GenBkyRoot
    \/ GenBkyProcedure
    \/ GenBkyInitialize
    \/ GenBkyBeforePicking
    \/ GenBkyAfterPicking
    \/ GenBkyDisconnect
    \/ GenBkyModeButton
    \/ GenBkyCheckBox
    \/ GenBkySlider
    \/ GenBkyReturn
    \/ GenExit

GenSpecInit == GenPackInit /\ GenInit

GenSpec == GenSpecInit /\ [][GenNext]_vars

-----------------------------------------------------------------------------
(* Properties of the two builders (specification GenSpec) *)

\* the slider label of build_scm bound to the local var, once it is bound
ScmLabelIs(var, text) ==
    var \in DOMAIN scm.locals => DictGet(scm.locals[var], "Text").s = text

\* some element made by build_bky carries the text
BkyHasText(text) == \E e \in 1..Len(bky.elems) : bky.elems[e].text = text

\* C5: with the midpoint 50 the defaults are blink 1025, chase 1025, fade 10,
\* rainbow 105 and twinkle 50, build_scm and build_bky compute the same five,
\* and these are the values the slider labels of both documents show.
C5_Defaults ==
    /\ scm_defaults = [blink |-> 1025, chase |-> 1025, fade |-> 10,
                       rainbow |-> 105, twinkle |-> 50]
    /\ bky_defaults = scm_defaults
    /\ ScmLabelIs("blink_layout.label", "Blink Interval: 1025 ms")
    /\ ScmLabelIs("chase_layout.label", "Chase Interval: 1025 ms")
    /\ ScmLabelIs("fade_layout.label", "Fade Step: 10")
    /\ ScmLabelIs("rainbow_layout.label", "Rainbow Speed: 105 ms")
    /\ ScmLabelIs("twinkle_layout.label", "Twinkle Speed: 50")
    /\ gpc = "built" =>
        /\ BkyHasText("Blink Interval: 1025 ms")
        /\ BkyHasText("Chase Interval: 1025 ms")
        /\ BkyHasText("Fade Step: 10")
        /\ BkyHasText("Rainbow Speed: 105 ms")
        /\ BkyHasText("Twinkle Speed: 50")

\* both documents are built and hold the fade step, the one default that is a tie
C5_Witness ==
    /\ gpc = "built"
    /\ "fade_layout.label" \in DOMAIN scm.locals
    /\ DictGet(scm.locals["fade_layout.label"], "Text").s = "Fade Step: 10"
    /\ BkyHasText("Fade Step: 10")

\* ids of the block nodes of the document below element e, in document order;
\* an element appended to two parents is a node under each
RECURSIVE DocBlockIds(_, _)
RECURSIVE DocBlockIdsOf(_, _)
DocBlockIds(elems, e) ==
    (IF elems[e].tag = "block" THEN << GetPair(elems[e].attrs, "id") >> ELSE <<>>)
        \o DocBlockIdsOf(elems, elems[e].kids)
DocBlockIdsOf(elems, kids) ==
    IF kids = <<>> THEN <<>>
    ELSE DocBlockIds(elems, kids[1]) \o DocBlockIdsOf(elems, Tail(kids))

NoDuplicates(q) == \A i, j \in 1..Len(q) : i # j => q[i] # q[j]

\* C6: in the document build_bky returns, no two block nodes reachable from
\* the root carry the same id.
C6_UniqueBlockIds ==
    gpc = "built" => NoDuplicates(DocBlockIds(bky.elems, bky.regs["root"]))

\* C7: in the document build_bky returns, every 'next' wrapper is a direct
\* child of a block, holds exactly one block and nothing else, and that block
\* was constructed after the block the wrapper belongs to.
C7_NextNesting ==
    gpc = "built" =>
        \A e \in 1..Len(bky.elems) :
            bky.elems[e].tag = "next" =>
                /\ Len(bky.elems[e].kids) = 1
                /\ bky.elems[bky.elems[e].kids[1]].tag = "block"
                /\ \A p \in 1..Len(bky.elems) :
                     (\E k \in 1..Len(bky.elems[p].kids) : bky.elems[p].kids[k] = e)
                        => /\ bky.elems[p].tag = "block"
                           /\ p < bky.elems[e].kids[1]

\* the numbers a builder can hand out in one run of build_scm, the base
\* included, and their str()
UuidRange ==
    NewComponentBuilder.uuid..(NewComponentBuilder.uuid + Len(ScmCalls))
UuidText == [n \in UuidRange |-> IntToStr(n)]

\* int(s) for the text of an Uuid handed out by a builder
UuidNumber(s) == CHOOSE n \in UuidRange : UuidText[n] = s

\* the Uuids of a descriptor and of the descriptors nested in it
RECURSIVE TreeUuids(_)
RECURSIVE TreeUuidsOf(_)
TreeUuids(v) ==
    << DictGet(v, "Uuid").s >>
        \o (IF HasKey(v, "$Components")
            THEN TreeUuidsOf(DictGet(v, "$Components").items)
            ELSE <<>>)
TreeUuidsOf(vs) ==
    IF vs = <<>> THEN <<>> ELSE TreeUuids(vs[1]) \o TreeUuidsOf(Tail(vs))

\* C8: in every run the first descriptor gets Uuid 1001, each descriptor gets
\* an Uuid greater than the base 1000 and than that of every descriptor made
\* before it, and in the finished tree no two descriptors, Screen1 with its
\* Uuid 0 included, share an Uuid.
C8_Uuids ==
    LET nums == [i \in 1..Len(scm.made) |-> UuidNumber(scm.made[i])]
    IN  /\ Len(scm.made) >= 1 => scm.made[1] = "1001"
        /\ \A i \in 1..Len(scm.made) : nums[i] > 1000
        /\ \A i, j \in 1..Len(scm.made) : i < j => nums[i] < nums[j]
        /\ ScmFinished(scm) =>
            LET ids == TreeUuids(ScmProperties(scm.locals))
            IN  /\ NoDuplicates(ids)
                /\ ids[1] = "0"
                /\ Len(ids) = Len(scm.made) + 1

\* the second run of build_scm has made all its descriptors
C8_Witness ==
    /\ runs = 1
    /\ gpc = "build_scm"
    /\ ScmFinished(scm)
    /\ Len(scm.made) = Len(ScmCalls)
    /\ scm.made[Len(scm.made)] = "1039"

\* the descriptors bound to the locals a call of builder.component names as
\* its children, in the order of the call
ChildrenOf(c) == [j \in 1..Len(c.children) |-> scm.locals[c.children[j]]]

\* a '$Components' value holds the descriptors kids in their order, as data
\* and as serialized text
HoldsInOrder(components, kids) ==
    /\ components.items = kids
    /\ json_dumps(components)
         = "[" \o StrJoin(",", [j \in 1..Len(kids) |-> json_dumps(kids[j])]) \o "]"

\* what a top-level block of the block document is: the procedure
\* definition, or the handler of an event of a component
TopLevelName(elems, e) ==
    LET mu == elems[elems[e].kids[1]]
    IN  IF HasPair(mu.attrs, "instance_name")
        THEN GetPair(mu.attrs, "instance_name") \o "."
                \o GetPair(mu.attrs, "event_name")
        ELSE GetPair(elems[e].attrs, "type")

AppendOrder ==
    << "procedures_defnoreturn", "Screen1.Initialize",
       "ConnectPicker.BeforePicking", "ConnectPicker.AfterPicking",
       "DisconnectButton.Click", "ManualButton.Click", "ChaseButton.Click",
       "BlinkModeButton.Click", "FadeModeButton.Click", "RainbowModeButton.Click",
       "CheckBoxRed.Changed", "CheckBoxGreen.Changed", "CheckBoxBlue.Changed",
       "CheckBoxWhite.Changed", "BlinkSlider.PositionChanged",
       "ChaseSlider.PositionChanged", "FadeSlider.PositionChanged",
       "RainbowSlider.PositionChanged", "TwinkleSlider.PositionChanged" >>

\* C13: every descriptor made with a children list holds, in '$Components',
\* those children in the order of the list, as data and in the serialized
\* text, the form included; the top-level blocks of the block document are in
\* the order they were appended (procedure, Initialize, BeforePicking,
\* AfterPicking, Disconnect, mode buttons, checkboxes, sliders), and the
\* returned text holds them in that order.
C13_ChildrenOrder ==
    /\ \A k \in 1..(scm.i - 1) :
         ScmCalls[k].children # <<>> =>
            HoldsInOrder(DictGet(scm.locals[ScmCalls[k].var], "$Components"),
                         ChildrenOf(ScmCalls[k]))
    /\ ScmFinished(scm) =>
         HoldsInOrder(DictGet(ScmProperties(scm.locals), "$Components"),
                      << scm.locals["main_layout"], scm.locals["notifier"],
                         scm.locals["bluetooth"] >>)
    /\ "root" \in DOMAIN bky.regs =>
         LET top == bky.elems[bky.regs["root"]].kids
         IN  /\ Len(top) <= Len(AppendOrder)
             /\ \A k \in 1..Len(top) :
                  TopLevelName(bky.elems, top[k]) = AppendOrder[k]
             /\ gpc = "built" =>
                  /\ Len(top) = Len(AppendOrder)
                  /\ bky_text
                       = "<xml xmlns=\"http://www.w3.org/1999/xhtml\">"
                         \o StrJoin("", [k \in 1..Len(top) |->
                                            tostring(bky.elems, top[k])])
                         \o "</xml>"

\* both documents are built: the main layout holds its fifteen children and
\* the block document its nineteen top-level blocks
C13_Witness ==
    /\ gpc = "built"
    /\ ScmFinished(scm)
    /\ Len(DictGet(scm.locals["main_layout"], "$Components").items) = 15
    /\ Len(bky.elems[bky.regs["root"]].kids) = 19

\* name and type of a descriptor and of the descriptors nested in it
RECURSIVE TreeNames(_)
TreeNames(v) ==
    { << DictGet(v, "$Name").s, DictGet(v, "$Type").s >> }
        \cup (IF HasKey(v, "$Components")
              THEN UNION { TreeNames(DictGet(v, "$Components").items[j]) :
                            j \in 1..Len(DictGet(v, "$Components").items) }
              ELSE {})

\* C14: every component instance a block of the block document refers to
\* (the instance_name of an event handler, property get or set, or method
\* call, with its component_type) is the name of a descriptor of that type
\* in the component tree of build_scm.
C14_ReferencesExist ==
    gpc = "built" =>
        \A e \in 1..Len(bky.elems) :
            (bky.elems[e].tag = "mutation"
                /\ HasPair(bky.elems[e].attrs, "instance_name")) =>
                << GetPair(bky.elems[e].attrs, "instance_name"),
                   GetPair(bky.elems[e].attrs, "component_type") >>
                    \in TreeNames(ScmProperties(scm.locals))

-----------------------------------------------------------------------------
(* ensure_no_conflicts followed statement by statement over every output of  *)
(* `git ls-files -u` (specification GitSpec)                                  *)

\* list_git_conflicts: subprocess.run(["git", "ls-files", "-u"], check=True)
GitQuery ==
    /\ pc = "idle"
    /\ \E out \in GitOutputs :
        /\ git_status' = IF out.ok THEN "ok" ELSE "failed"
        /\ stdout' = out.lines
    /\ queried' = TRUE
    /\ pc' = "g_ran"
    /\ UNCHANGED gvars
    /\ UNCHANGED <<fs, dirs, err, listed, conflicts, written, fs0, lastOk>>

\* list_git_conflicts: the except clause, or the loop over the lines and
\* `return sorted(conflicts)`
GitList ==
    /\ pc = "g_ran"
    /\ IF git_status = "failed"
       THEN /\ err' = [kind |-> "RuntimeError", paths |-> <<>>]
            /\ listed' = listed
            /\ pc' = "g_failed"
       ELSE /\ err' = err
            /\ listed' = list_git_conflicts(stdout)
            /\ pc' = "g_listed"
    /\ UNCHANGED gvars
    /\ UNCHANGED <<fs, dirs, git_status, stdout, conflicts, queried, written, fs0,
                   lastOk>>

\* ensure_no_conflicts: the filter and the raise
GitFilter ==
    /\ pc = "g_listed"
    /\ conflicts' = NonArchiveConflicts(listed)
    /\ IF conflicts' # <<>>
       THEN /\ err' = [kind |-> "ConflictError",
                       paths |-> ConflictMessagePaths(conflicts')]
            /\ pc' = "g_failed"
       ELSE /\ err' = err
            /\ pc' = "g_passed"
    /\ UNCHANGED gvars
    /\ UNCHANGED <<fs, dirs, git_status, stdout, listed, queried, written, fs0,
                   lastOk>>

\* ensure_no_conflicts returned or raised
GitReturn ==
    /\ pc \in { "g_failed", "g_passed" }
    /\ pc' = "idle"
    /\ err' = NoError
    /\ git_status' = "none"
    /\ stdout' = <<>>
    /\ listed' = <<>>
    /\ conflicts' = <<>>
    /\ queried' = FALSE
    /\ UNCHANGED gvars
    /\ UNCHANGED <<fs, dirs, written, fs0, lastOk>>

GitNext ==
    \/ GitQuery
    \/ GitList
    \/ GitFilter
    \/ GitReturn

GitSpecInit == GenPackInit /\ GenInit

GitSpec == GitSpecInit /\ [][GitNext]_vars

\* the paths printed after a tab by the lines of stdout
PrintedPaths ==
    { Join(REPO_ROOT, stdout[i][2]) :
        i \in { j \in 1..Len(stdout) : Len(stdout[j]) >= 2 } }

\* C15: the list list_git_conflicts returns holds each path printed after a
\* tab exactly once, however many lines print it, in ascending order, and
\* nothing for a line without a tab; the ConflictError raised from it lists
\* each conflicting path other than the archive once.
C15_ListedOnceSorted ==
    (git_status = "ok" /\ pc \in { "g_listed", "g_failed", "g_passed" }) =>
        /\ SeqToSet(listed) = PrintedPaths
        /\ Len(listed) = Cardinality(PrintedPaths)
        /\ \A i \in 1..(Len(listed) - 1) : PathLess(listed[i], listed[i + 1])
        /\ pc = "g_failed" =>
            /\ err.kind = "ConflictError"
            /\ SeqToSet(err.paths)
                 = { relative_to(p, REPO_ROOT) : p \in PrintedPaths \ { AIA_PATH } }
            /\ Len(err.paths) = Cardinality(PrintedPaths \ { AIA_PATH })

\* two stage entries of one descriptor were printed and the error lists it once
C15_Witness ==
    /\ pc = "g_failed"
    /\ Len(stdout) = 2
    /\ Len(stdout[1]) = 2 /\ Len(stdout[2]) = 2
    /\ stdout[1][2] = stdout[2][2]
    /\ stdout[1][1] # stdout[2][1]
    /\ Len(listed) = 1
    /\ Len(err.paths) = 1

====
